---- MODULE Spec2Model ----
(***************************************************************************)
(* State machine of the "listen together" plugin (src/main.py):            *)
(* ListenTogetherPlugin with its MusicRoom and Song objects and the        *)
(* MusicAPI lookups it awaits.                                             *)
(*                                                                         *)
(* Every command handler is an async generator run as its own task on one  *)
(* event loop.  A handler runs without interruption up to an `await` of a  *)
(* network lookup; there it is suspended and other handlers run.  Each     *)
(* action below is one such uninterrupted stretch: a whole handler when it *)
(* awaits nothing, otherwise the part before the await (the handler's      *)
(* frame is put into `tasks`) and the part after it (the resume actions).  *)
(* The code of each stretch is an operator named after the handler: from   *)
(* the current state it gives the state the stretch leaves and the message *)
(* it yields (`reply`); the action of the same name in capitals takes that *)
(* step.                                                                   *)
(*                                                                         *)
(* MusicRoom and Song are mutable objects shared by reference, so they     *)
(* live in two heaps (room_heap, song_heap) indexed by object identity;    *)
(* the dictionaries, playlists and suspended frames hold identities.  As   *)
(* in Python, an object no reference reaches is freed and its identity may *)
(* be given to a later object.                                             *)
(***************************************************************************)
EXTENDS Integers, Sequences, FiniteSets, Bags, TLC

\* ------------------------------------------------------------------ bounds
\* Live MusicRoom objects (rooms in the dict or still held by a suspended frame).
MaxRoomObjs == 2
\* Live Song objects.
MaxSongs == 2
\* Handlers suspended in a network lookup at the same time.
MaxTasks == 2
\* Longest playlist.
MaxPlaylist == 2
\* Largest number a user types after /选歌, /切歌, /移除.
MaxArg == 2
\* Length of the runs explored: handler stretches that change the state.
MaxSteps == 8
\* Songs in the playlist the playback specification starts from.
ScenarioSongs == 3

\* ------------------------------------------------------------------ inputs
\* event.get_sender_id() values.
Users == {"1", "2"}
\* Group scopes: str(event.get_group_id()) or "private".
Groups == {"8"}
\* What the first run of digits of the message parses to, or NoNumber when
\* re.search(r'(\d+)', message) finds nothing.
NoNumber == -1
Args == {NoNumber} \cup (0 .. MaxArg)
\* The text after /播放模式: the two recognised modes ("顺序"/"sequence",
\* "随机"/"random") and anything else.
ModeArgs == {"sequence", "random", "other"}
\* Provider catalogues: the song ids (QQ "mid", Netease numeric id) a search
\* returns, in order; a search answers with a prefix of the catalogue.
QQCatalogue == <<"0a", "0b">>
NeteaseCatalogue == <<"11", "12">>
\* What a search request comes back with: the number of items of the answer,
\* or Failed when the request raises (timeout, bad JSON) or the answer's code
\* is not the provider's success code.
Failed == -1
QQAnswers == {Failed} \cup (0 .. Len(QQCatalogue))
NeteaseAnswers == {Failed} \cup (0 .. Len(NeteaseCatalogue))
\* Outcome of the HTTP request of a URL lookup: a stream link is found, the
\* answer holds none, or the request raises (timeout, bad JSON).
Responses == {"link", "nolink", "error"}
\* The text after /点歌: nothing, or a keyword.
Keywords == {"", "sunrise"}

\* ------------------------------------------------------------------ dicts
EmptyDict == [k \in {} |-> 0]
Put(d, k, v) == [x \in (DOMAIN d) \cup {k} |-> IF x = k THEN v ELSE d[x]]
Del(d, k) == [x \in (DOMAIN d) \ {k} |-> d[x]]
Restrict(d, S) == [x \in (DOMAIN d) \cap S |-> d[x]]
\* None, as an object identity.
None == 0
\* list.pop(i) for a 1-based position i.
RemoveAt(s, i) == [j \in 1 .. (Len(s) - 1) |-> IF j < i THEN s[j] ELSE s[j + 1]]
SeqRange(s) == {s[i] : i \in 1 .. Len(s)}

VARIABLES
    rooms,           \* self.rooms: room key -> MusicRoom identity
    user_room_map,   \* self.user_room_map: "user_group" -> room key
    search_results,  \* self.search_results: "user_group" -> list of Song identities
    room_heap,       \* the MusicRoom objects, by identity
    song_heap,       \* the Song objects, by identity
    tasks,           \* bag of handler frames suspended in a network lookup
    handled          \* how many handler stretches have changed the state so far

vars == <<rooms, user_room_map, search_results, room_heap, song_heap, tasks, handled>>

\* ------------------------------------------------------------------ keys
get_group_key(group_id) == "room_" \o group_id
user_key(user_id, group_id) == user_id \o "_" \o group_id
user_name(user_id) == "name" \o user_id

\* _get_user_room: self.rooms.get(room_key); user_id is not consulted.
get_user_room(user_id, group_id) ==
    IF get_group_key(group_id) \in DOMAIN rooms
    THEN rooms[get_group_key(group_id)]
    ELSE None

\* ------------------------------------------------------------------ MusicRoom
NewRoom(room_key, user_id, group_id) ==
    [room_id |-> room_key, owner_id |-> user_id, owner_name |-> user_name(user_id),
     group_id |-> group_id, playlist |-> <<>>, current_index |-> -1,
     members |-> EmptyDict, is_playing |-> FALSE, play_mode |-> "sequence"]

Room_add_song(room, song) == [room EXCEPT !.playlist = Append(@, song)]

\* MusicRoom.remove_song: the room afterwards, and the Song it returns.
Room_remove_song(room, index) ==
    IF 0 <= index /\ index < Len(room.playlist)
    THEN [room EXCEPT !.playlist = RemoveAt(@, index + 1)]
    ELSE room
Room_removed(room, index) ==
    IF 0 <= index /\ index < Len(room.playlist)
    THEN room.playlist[index + 1]
    ELSE None

get_current_song(room) ==
    IF 0 <= room.current_index /\ room.current_index < Len(room.playlist)
    THEN room.playlist[room.current_index + 1]
    ELSE None

\* MusicRoom.next_song stepping past the end of the playlist in sequential
\* mode (no `% len(self.playlist)` at line 63).
Room_next_song_runs_off(room, rnd) ==
    IF room.playlist = <<>>
    THEN room
    ELSE IF room.play_mode = "random"
         THEN [room EXCEPT !.current_index = rnd]
         ELSE [room EXCEPT !.current_index = @ + 1]

\* MusicRoom.next_song; rnd is the value random.randint(0, len - 1) draws.
Room_next_song(room, rnd) ==
    IF room.playlist = <<>>
    THEN room
    ELSE IF room.play_mode = "random"
         THEN [room EXCEPT !.current_index = rnd]
         ELSE [room EXCEPT !.current_index = (@ + 1) % Len(room.playlist)]

\* MusicRoom.prev_song stopping at the first song instead of wrapping to the
\* last (no modulo at line 69).
Room_prev_song_stops(room) ==
    IF room.playlist = <<>>
    THEN room
    ELSE [room EXCEPT !.current_index = IF @ - 1 < 0 THEN 0 ELSE @ - 1]

Room_prev_song(room) ==
    IF room.playlist = <<>>
    THEN room
    ELSE [room EXCEPT !.current_index = (@ - 1) % Len(room.playlist)]

Room_add_member(room, user_id, name) == [room EXCEPT !.members = Put(@, user_id, name)]

Room_remove_member(room, user_id) == [room EXCEPT !.members = Del(@, user_id)]

\* ------------------------------------------------------------------ MusicAPI
\* The list _search_qq / _search_netease build from an answer of n items:
\* one new Song per item, url empty, tagged with the provider.
ProviderSongs(catalogue, source, n) ==
    [i \in 1 .. n |-> [id |-> catalogue[i], url |-> "", source |-> source]]

\* _search_qq / _search_netease: the Songs of the answer, the empty list when
\* the request failed.
search_qq(answer) ==
    IF answer = Failed THEN <<>> ELSE ProviderSongs(QQCatalogue, "qq", answer)
search_netease(answer) ==
    IF answer = Failed THEN <<>> ELSE ProviderSongs(NeteaseCatalogue, "netease", answer)

\* MusicAPI.search with Netease's list returned even when QQ's is not empty
\* (no early return at lines 92-93).
search_prefers_netease(qq_songs, netease_songs) ==
    IF netease_songs # <<>> THEN netease_songs ELSE qq_songs

\* MusicAPI.search: QQ's list when it is not empty, otherwise Netease's.
search(qq_songs, netease_songs) ==
    IF qq_songs # <<>> THEN qq_songs ELSE netease_songs

\* The providers MusicAPI.search sends a request to, in order: Netease is
\* asked only when QQ's list is empty.
search_requests(qq_songs) ==
    IF qq_songs # <<>> THEN <<"qq">> ELSE <<"qq", "netease">>

\* _get_qq_song_url without the except clause of lines 244-246: a request
\* that raises leaves the caller without a URL.
get_qq_song_url_gives_up(song_mid, resp) ==
    IF resp = "link"
    THEN "http://ws.stream.qqmusic.qq.com/" \o song_mid \o ".m4a"
    ELSE IF resp = "nolink"
    THEN "https://y.qq.com/n/ryqq/songDetail/" \o song_mid
    ELSE ""

get_qq_song_url(song_mid, resp) ==
    IF resp = "link"
    THEN "http://ws.stream.qqmusic.qq.com/" \o song_mid \o ".m4a"
    ELSE "https://y.qq.com/n/ryqq/songDetail/" \o song_mid

get_netease_song_url(song_id, resp) ==
    IF resp = "link"
    THEN "http://m10.music.126.net/" \o song_id \o ".mp3"
    ELSE "https://music.163.com/song?id=" \o song_id

get_song_url(song, resp) ==
    IF song.source = "qq"
    THEN get_qq_song_url(song.id, resp)
    ELSE get_netease_song_url(song.id, resp)

\* ------------------------------------------------------------------ object lifetime
\* The identity a new object gets: the smallest one not in use.
NewId(used) == CHOOSE x \in 1 .. (Cardinality(used) + 1) :
                   x \notin used /\ \A y \in 1 .. (x - 1) : y \in used
RECURSIVE Alloc(_, _)
Alloc(used, n) ==
    IF n = 0 THEN <<>>
    ELSE <<NewId(used)>> \o Alloc(used \cup {NewId(used)}, n - 1)

\* A suspended handler: which handler, for whom, and the objects its local
\* variables `room` and `song` hold.
Frame(kind, user_id, group_id, room, song) ==
    [kind |-> kind, user_id |-> user_id, group_id |-> group_id, room |-> room, song |-> song]

LiveRooms(rms, tks) ==
    {rms[k] : k \in DOMAIN rms} \cup ({t.room : t \in BagToSet(tks)} \ {None})

LiveSongs(rheap, results, tks) ==
    UNION {SeqRange(rheap[r].playlist) : r \in DOMAIN rheap}
    \cup UNION {SeqRange(results[k]) : k \in DOMAIN results}
    \cup ({t.song : t \in BagToSet(tks)} \ {None})

\* What a stretch of handler code leaves behind: the plugin's fields and
\* objects (the objects nothing refers to any more are freed) and the message
\* it yielded ("" when it yielded none).
Result(rms, map, results, rheap, sheap, tks, msg) ==
    [rooms |-> rms, user_room_map |-> map, search_results |-> results,
     room_heap |-> Restrict(rheap, LiveRooms(rms, tks)),
     song_heap |-> Restrict(sheap,
                            LiveSongs(Restrict(rheap, LiveRooms(rms, tks)), results, tks)),
     tasks |-> tks, reply |-> msg]

\* A stretch that changes at most the room object r.
RoomResult(r, room, msg) ==
    Result(rooms, user_room_map, search_results, [room_heap EXCEPT ![r] = room],
           song_heap, tasks, msg)

\* A stretch that only answers: nothing is written and no object loses a
\* reference.
Answer(msg) ==
    [rooms |-> rooms, user_room_map |-> user_room_map, search_results |-> search_results,
     room_heap |-> room_heap, song_heap |-> song_heap, tasks |-> tasks, reply |-> msg]

\* Suspended select_song frames of a bag whose local `room` is the object r.
RECURSIVE Copies(_, _)
Copies(T, tks) ==
    IF T = {} THEN 0
    ELSE LET t == CHOOSE x \in T : TRUE
         IN CopiesIn(t, tks) + Copies(T \ {t}, tks)
SelectsInFlight(r, tks) ==
    Copies({t \in BagToSet(tks) : t.kind = "select" /\ t.room = r}, tks)

\* Whether a stretch changes anything.
Changes(res) ==
    <<res.rooms, res.user_room_map, res.search_results, res.room_heap, res.song_heap,
      res.tasks>> # <<rooms, user_room_map, search_results, room_heap, song_heap, tasks>>

\* The bounds of the model, on the state a step leads to.
WithinBounds(res) ==
    /\ Changes(res) => handled < MaxSteps
    /\ Cardinality(DOMAIN res.room_heap) <= MaxRoomObjs
    /\ Cardinality(DOMAIN res.song_heap) <= MaxSongs
    /\ BagCardinality(res.tasks) <= MaxTasks
    /\ \A r \in DOMAIN res.room_heap :
           Len(res.room_heap[r].playlist) + SelectsInFlight(r, res.tasks) <= MaxPlaylist

\* The step that runs a stretch of handler code.
Apply(res) ==
    /\ rooms' = res.rooms
    /\ user_room_map' = res.user_room_map
    /\ search_results' = res.search_results
    /\ room_heap' = res.room_heap
    /\ song_heap' = res.song_heap
    /\ tasks' = res.tasks
    /\ handled' = IF Changes(res) THEN handled + 1 ELSE handled

\* ------------------------------------------------------------------ construction
Init ==
    /\ rooms = EmptyDict
    /\ user_room_map = EmptyDict
    /\ search_results = EmptyDict
    /\ room_heap = EmptyDict
    /\ song_heap = EmptyDict
    /\ tasks = EmptyBag
    /\ handled = 0

\* ------------------------------------------------------------------ room management
\* create_room without the check of line 321: a second create replaces the room.
create_room_overwrites(user_id, group_id) ==
    LET room_key == get_group_key(group_id)
        r == NewId(DOMAIN room_heap)
        room == Room_add_member(NewRoom(room_key, user_id, group_id),
                                user_id, user_name(user_id))
    IN Result(Put(rooms, room_key, r),
              Put(user_room_map, user_key(user_id, group_id), room_key),
              search_results, Put(room_heap, r, room), song_heap, tasks,
              "RoomCreated")

create_room(user_id, group_id) ==
    LET room_key == get_group_key(group_id)
        r == NewId(DOMAIN room_heap)
        room == Room_add_member(NewRoom(room_key, user_id, group_id),
                                user_id, user_name(user_id))
    IN IF room_key \in DOMAIN rooms
       THEN Answer("AlreadyExists")
       ELSE Result(Put(rooms, room_key, r),
                   Put(user_room_map, user_key(user_id, group_id), room_key),
                   search_results, Put(room_heap, r, room), song_heap, tasks,
                   "RoomCreated")

\* join_room without the reverse-index entry of line 358.
join_room_skips_index(user_id, group_id) ==
    LET r == get_user_room(user_id, group_id) IN
    IF r = None
    THEN Answer("NoRoomToJoin")
    ELSE IF user_id \in DOMAIN room_heap[r].members
    THEN Answer("AlreadyInRoom")
    ELSE Result(rooms, user_room_map, search_results,
                [room_heap EXCEPT ![r] = Room_add_member(@, user_id, user_name(user_id))],
                song_heap, tasks, "Joined")

join_room(user_id, group_id) ==
    LET r == get_user_room(user_id, group_id) IN
    IF r = None
    THEN Answer("NoRoomToJoin")
    ELSE IF user_id \in DOMAIN room_heap[r].members
    THEN Answer("AlreadyInRoom")
    ELSE Result(rooms,
                Put(user_room_map, user_key(user_id, group_id), room_heap[r].room_id),
                search_results,
                [room_heap EXCEPT ![r] = Room_add_member(@, user_id, user_name(user_id))],
                song_heap, tasks, "Joined")

\* leave_room without the owner check of lines 376-378: the owner leaves like
\* any member.
leave_room_lets_owner_go(user_id, group_id) ==
    LET r == get_user_room(user_id, group_id) IN
    IF r = None
    THEN Answer("NotInAnyRoom")
    ELSE Result(rooms,
                Del(user_room_map, user_key(user_id, group_id)),
                search_results,
                [room_heap EXCEPT ![r] = Room_remove_member(@, user_id)],
                song_heap, tasks, "Left")

\* leave_room without the deletion of lines 381-382: the reverse index keeps the entry.
leave_room_keeps_index(user_id, group_id) ==
    LET r == get_user_room(user_id, group_id) IN
    IF r = None
    THEN Answer("NotInAnyRoom")
    ELSE IF user_id = room_heap[r].owner_id
    THEN Answer("OwnerCannotLeave")
    ELSE Result(rooms, user_room_map, search_results,
                [room_heap EXCEPT ![r] = Room_remove_member(@, user_id)],
                song_heap, tasks, "Left")

leave_room(user_id, group_id) ==
    LET r == get_user_room(user_id, group_id) IN
    IF r = None
    THEN Answer("NotInAnyRoom")
    ELSE IF user_id = room_heap[r].owner_id
    THEN Answer("OwnerCannotLeave")
    ELSE Result(rooms,
                Del(user_room_map, user_key(user_id, group_id)),
                search_results,
                [room_heap EXCEPT ![r] = Room_remove_member(@, user_id)],
                song_heap, tasks, "Left")

\* close_room evicting only the caller's entry instead of every member's (lines 401-404).
close_room_evicts_caller_only(user_id, group_id) ==
    LET r == get_user_room(user_id, group_id) IN
    IF r = None
    THEN Answer("NoActiveRoom")
    ELSE IF user_id # room_heap[r].owner_id
    THEN Answer("NotOwner")
    ELSE Result(Del(rooms, get_group_key(group_id)),
                Del(user_room_map, user_key(user_id, group_id)),
                search_results, room_heap, song_heap, tasks, "RoomClosed")

close_room(user_id, group_id) ==
    LET r == get_user_room(user_id, group_id) IN
    IF r = None
    THEN Answer("NoActiveRoom")
    ELSE IF user_id # room_heap[r].owner_id
    THEN Answer("NotOwner")
    ELSE Result(Del(rooms, get_group_key(group_id)),
                Restrict(user_room_map,
                         (DOMAIN user_room_map)
                         \ {user_key(m, group_id) : m \in DOMAIN room_heap[r].members}),
                search_results, room_heap, song_heap, tasks, "RoomClosed")

\* ------------------------------------------------------------------ search and select
\* search_song up to its await: the checks, the "searching" message, then the
\* handler is suspended in MusicAPI.search.
search_song(user_id, group_id, keyword) ==
    IF keyword = ""
    THEN Answer("NeedKeyword")
    ELSE IF get_user_room(user_id, group_id) = None
    THEN Answer("JoinRoomFirst")
    ELSE Result(rooms, user_room_map, search_results, room_heap, song_heap,
                tasks (+) SetToBag({Frame("search", user_id, group_id, None, None)}),
                "Searching")

\* search_song after its await, for the suspended frame t: nq and nn are what
\* the QQ and the Netease request come back with.  The Songs found are new
\* objects.
search_song_resume(t, nq, nn) ==
    LET songs == search(search_qq(nq), search_netease(nn))
        done == tasks (-) SetToBag({t})
        ids == Alloc(DOMAIN song_heap, Len(songs))
        sheap == [s \in (DOMAIN song_heap) \cup SeqRange(ids) |->
                     IF s \in DOMAIN song_heap THEN song_heap[s]
                     ELSE songs[CHOOSE i \in 1 .. Len(ids) : ids[i] = s]]
    IN IF songs = <<>>
       THEN Result(rooms, user_room_map, search_results, room_heap, song_heap,
                   done, "NotFound")
       ELSE Result(rooms, user_room_map,
                   Put(search_results, user_key(t.user_id, t.group_id), ids),
                   room_heap, sheap, done, "SearchResults")

\* select_song reading the stash of the room's owner when the caller has none:
\* a stash shared by the room instead of one per caller (line 456).
select_song_shared_stash(user_id, group_id, arg) ==
    LET r == get_user_room(user_id, group_id)
        own_key == user_key(user_id, group_id)
        search_key == IF r # None /\ own_key \notin DOMAIN search_results
                      THEN user_key(room_heap[r].owner_id, group_id)
                      ELSE own_key
        index == arg - 1
    IN IF r = None
       THEN Answer("NotInRoom")
       ELSE IF search_key \notin DOMAIN search_results
       THEN Answer("NoPendingSearch")
       ELSE IF arg = NoNumber
       THEN Answer("BadNumber")
       ELSE IF index < 0 \/ index >= Len(search_results[search_key])
       THEN Answer("IndexOutOfRange")
       ELSE Result(rooms, user_room_map, search_results, room_heap, song_heap,
                   tasks (+) SetToBag({Frame("select", user_id, group_id, r,
                                             search_results[search_key][index + 1])}),
                   "")

\* select_song up to its await of get_song_url.
select_song(user_id, group_id, arg) ==
    LET r == get_user_room(user_id, group_id)
        search_key == user_key(user_id, group_id)
        index == arg - 1
    IN IF r = None
       THEN Answer("NotInRoom")
       ELSE IF search_key \notin DOMAIN search_results
       THEN Answer("NoPendingSearch")
       ELSE IF arg = NoNumber
       THEN Answer("BadNumber")
       ELSE IF index < 0 \/ index >= Len(search_results[search_key])
       THEN Answer("IndexOutOfRange")
       ELSE Result(rooms, user_room_map, search_results, room_heap, song_heap,
                   tasks (+) SetToBag({Frame("select", user_id, group_id, r,
                                             search_results[search_key][index + 1])}),
                   "")

\* The message a navigation handler yields with the song it arrived at.
NavMessage(kind) ==
    CASE kind = "play" -> "NowPlaying"
      [] kind = "next" -> "NextSong"
      [] kind = "prev" -> "PrevSong"
      [] kind = "skip" -> "SkippedTo"

\* The resumption of a handler that forgets the URL it awaited (no
\* assignment to song.url at lines 478, 526, 574, 598, 635).
get_song_url_resume_drops_url(t, resp) ==
    LET done == tasks (-) SetToBag({t})
        search_key == user_key(t.user_id, t.group_id)
        rheap == [room_heap EXCEPT ![t.room] = Room_add_song(@, t.song)]
    IN IF t.kind = "select"
       THEN IF search_key \in DOMAIN search_results
            THEN Result(rooms, user_room_map, Del(search_results, search_key),
                        rheap, song_heap, done, "SongAdded")
            ELSE Result(rooms, user_room_map, search_results,
                        rheap, song_heap, done, "KeyError")
       ELSE Result(rooms, user_room_map, search_results, room_heap, song_heap, done,
                   NavMessage(t.kind))

\* The resumption of select_song without the deletion of line 481: a
\* successful selection leaves the stash in place.
get_song_url_resume_keeps_stash(t, resp) ==
    LET url == get_song_url(song_heap[t.song], resp)
        sheap == [song_heap EXCEPT ![t.song].url = url]
        done == tasks (-) SetToBag({t})
        rheap == [room_heap EXCEPT ![t.room] = Room_add_song(@, t.song)]
    IN IF t.kind = "select"
       THEN Result(rooms, user_room_map, search_results, rheap, sheap, done, "SongAdded")
       ELSE Result(rooms, user_room_map, search_results, room_heap, sheap, done,
                   NavMessage(t.kind))

\* The frame t resumes from `await self.music_api.get_song_url(song)`: the URL
\* is stored on the Song; select_song then appends the song to its room and
\* deletes the caller's stash (KeyError when the key is gone), the navigation
\* handlers only report the song.
get_song_url_resume(t, resp) ==
    LET url == get_song_url(song_heap[t.song], resp)
        sheap == [song_heap EXCEPT ![t.song].url = url]
        done == tasks (-) SetToBag({t})
        search_key == user_key(t.user_id, t.group_id)
        rheap == [room_heap EXCEPT ![t.room] = Room_add_song(@, t.song)]
    IN IF t.kind = "select"
       THEN IF search_key \in DOMAIN search_results
            THEN Result(rooms, user_room_map, Del(search_results, search_key),
                        rheap, sheap, done, "SongAdded")
            ELSE Result(rooms, user_room_map, search_results,
                        rheap, sheap, done, "KeyError")
       ELSE Result(rooms, user_room_map, search_results, room_heap, sheap, done,
                   NavMessage(t.kind))

\* ------------------------------------------------------------------ playback
\* The common tail of play / next_song / prev_song / skip_to once the room
\* object r has become `room`: report the current song, first resolving its
\* URL (an await) when it has none.  no_song is what the handler yields when
\* there is no current song.
Present(kind, user_id, group_id, r, room, no_song) ==
    LET song == get_current_song(room)
        rheap == [room_heap EXCEPT ![r] = room]
    IN IF song = None
       THEN Result(rooms, user_room_map, search_results, rheap, song_heap, tasks, no_song)
       ELSE IF song_heap[song].url = ""
       THEN Result(rooms, user_room_map, search_results, rheap, song_heap,
                   tasks (+) SetToBag({Frame(kind, user_id, group_id, r, song)}), "")
       ELSE Result(rooms, user_room_map, search_results, rheap, song_heap, tasks,
                   NavMessage(kind))

\* play starting over from the first song whatever the cursor is (no
\* `if room.current_index < 0` at line 519).
play_restarts(user_id, group_id) ==
    LET r == get_user_room(user_id, group_id) IN
    IF r = None
    THEN Answer("NotInRoom")
    ELSE IF room_heap[r].playlist = <<>>
    THEN Answer("PlaylistEmpty")
    ELSE IF room_heap[r].is_playing
    THEN Answer("AlreadyPlaying")
    ELSE Present("play", user_id, group_id, r,
                 [room_heap[r] EXCEPT !.is_playing = TRUE, !.current_index = 0],
                 "NoCurrentSong")

play(user_id, group_id) ==
    LET r == get_user_room(user_id, group_id) IN
    IF r = None
    THEN Answer("NotInRoom")
    ELSE IF room_heap[r].playlist = <<>>
    THEN Answer("PlaylistEmpty")
    ELSE IF room_heap[r].is_playing
    THEN Answer("AlreadyPlaying")
    ELSE Present("play", user_id, group_id, r,
                 [room_heap[r] EXCEPT !.is_playing = TRUE,
                                      !.current_index = IF @ < 0 THEN 0 ELSE @],
                 "NoCurrentSong")

pause(user_id, group_id) ==
    LET r == get_user_room(user_id, group_id) IN
    IF r = None
    THEN Answer("NotInRoom")
    ELSE IF ~room_heap[r].is_playing
    THEN Answer("NothingPlaying")
    ELSE RoomResult(r, [room_heap[r] EXCEPT !.is_playing = FALSE], "Paused")

\* rnd is the value random.randint(0, len(playlist) - 1) draws in random mode.
next_song(user_id, group_id, rnd) ==
    LET r == get_user_room(user_id, group_id) IN
    IF r = None
    THEN Answer("NotInRoom")
    ELSE IF room_heap[r].playlist = <<>>
    THEN Answer("PlaylistEmpty")
    ELSE Present("next", user_id, group_id, r, Room_next_song(room_heap[r], rnd), "")

prev_song(user_id, group_id) ==
    LET r == get_user_room(user_id, group_id) IN
    IF r = None
    THEN Answer("NotInRoom")
    ELSE IF room_heap[r].playlist = <<>>
    THEN Answer("PlaylistEmpty")
    ELSE Present("prev", user_id, group_id, r, Room_prev_song(room_heap[r]), "")

skip_to(user_id, group_id, arg) ==
    LET r == get_user_room(user_id, group_id)
        index == arg - 1
    IN IF r = None
       THEN Answer("NotInRoom")
       ELSE IF arg = NoNumber
       THEN Answer("BadNumber")
       ELSE IF index < 0 \/ index >= Len(room_heap[r].playlist)
       THEN Answer("IndexOutOfRange")
       ELSE Present("skip", user_id, group_id, r,
                    [room_heap[r] EXCEPT !.current_index = index], "")

\* ------------------------------------------------------------------ playlist editing
Max(a, b) == IF a >= b THEN a ELSE b

\* remove_song leaving the cursor where it was (no lines 666-667).
remove_song_keeps_cursor(user_id, group_id, arg) ==
    LET r == get_user_room(user_id, group_id)
        index == arg - 1
    IN IF r = None
       THEN Answer("NotInRoom")
       ELSE IF arg = NoNumber
       THEN Answer("BadNumber")
       ELSE IF Room_removed(room_heap[r], index) = None
       THEN Answer("IndexOutOfRange")
       ELSE RoomResult(r, Room_remove_song(room_heap[r], index), "Removed")

remove_song(user_id, group_id, arg) ==
    LET r == get_user_room(user_id, group_id)
        index == arg - 1
    IN IF r = None
       THEN Answer("NotInRoom")
       ELSE IF arg = NoNumber
       THEN Answer("BadNumber")
       ELSE IF Room_removed(room_heap[r], index) = None
       THEN Answer("IndexOutOfRange")
       ELSE LET room == Room_remove_song(room_heap[r], index)
            IN RoomResult(r,
                   IF room.current_index >= Len(room.playlist)
                   THEN [room EXCEPT !.current_index = Max(0, Len(room.playlist) - 1)]
                   ELSE room,
                   "Removed")

\* clear_playlist without the owner check of lines 682-684.
clear_playlist_by_anyone(user_id, group_id) ==
    LET r == get_user_room(user_id, group_id) IN
    IF r = None
    THEN Answer("NotInRoom")
    ELSE RoomResult(r, [room_heap[r] EXCEPT !.playlist = <<>>, !.current_index = -1,
                                            !.is_playing = FALSE],
                    "Cleared")

clear_playlist(user_id, group_id) ==
    LET r == get_user_room(user_id, group_id) IN
    IF r = None
    THEN Answer("NotInRoom")
    ELSE IF user_id # room_heap[r].owner_id
    THEN Answer("OnlyOwnerClears")
    ELSE RoomResult(r, [room_heap[r] EXCEPT !.playlist = <<>>, !.current_index = -1,
                                            !.is_playing = FALSE],
                    "Cleared")

set_play_mode(user_id, group_id, mode) ==
    LET r == get_user_room(user_id, group_id) IN
    IF r = None
    THEN Answer("NotInRoom")
    ELSE IF mode = "sequence"
    THEN RoomResult(r, [room_heap[r] EXCEPT !.play_mode = "sequence"], "ModeSequence")
    ELSE IF mode = "random"
    THEN RoomResult(r, [room_heap[r] EXCEPT !.play_mode = "random"], "ModeRandom")
    ELSE Answer(IF room_heap[r].play_mode = "random" THEN "ModeIsRandom" ELSE "ModeIsSequence")

\* ------------------------------------------------------------------ actions
\* One action per handler stretch, for every caller, scope and input.
CreateRoom(u, g) ==
    /\ WithinBounds(create_room(u, g))
    /\ Apply(create_room(u, g))
JoinRoom(u, g) ==
    /\ WithinBounds(join_room(u, g))
    /\ Apply(join_room(u, g))
LeaveRoom(u, g) ==
    /\ WithinBounds(leave_room(u, g))
    /\ Apply(leave_room(u, g))
CloseRoom(u, g) ==
    /\ WithinBounds(close_room(u, g))
    /\ Apply(close_room(u, g))
SearchSong(u, g, k) ==
    /\ WithinBounds(search_song(u, g, k))
    /\ Apply(search_song(u, g, k))
SearchSongResume(t, nq, nn) ==
    /\ t \in BagToSet(tasks)
    /\ t.kind = "search"
    /\ WithinBounds(search_song_resume(t, nq, nn))
    /\ Apply(search_song_resume(t, nq, nn))
SelectSong(u, g, a) ==
    /\ WithinBounds(select_song(u, g, a))
    /\ Apply(select_song(u, g, a))
GetSongUrlResume(t, resp) ==
    /\ t \in BagToSet(tasks)
    /\ t.kind # "search"
    /\ WithinBounds(get_song_url_resume(t, resp))
    /\ Apply(get_song_url_resume(t, resp))
Play(u, g) ==
    /\ WithinBounds(play(u, g))
    /\ Apply(play(u, g))
Pause(u, g) ==
    /\ WithinBounds(pause(u, g))
    /\ Apply(pause(u, g))
NextSong(u, g, rnd) ==
    /\ get_user_room(u, g) # None => rnd < Max(1, Len(room_heap[get_user_room(u, g)].playlist))
    /\ WithinBounds(next_song(u, g, rnd))
    /\ Apply(next_song(u, g, rnd))
PrevSong(u, g) ==
    /\ WithinBounds(prev_song(u, g))
    /\ Apply(prev_song(u, g))
SkipTo(u, g, a) ==
    /\ WithinBounds(skip_to(u, g, a))
    /\ Apply(skip_to(u, g, a))
RemoveSong(u, g, a) ==
    /\ WithinBounds(remove_song(u, g, a))
    /\ Apply(remove_song(u, g, a))
ClearPlaylist(u, g) ==
    /\ WithinBounds(clear_playlist(u, g))
    /\ Apply(clear_playlist(u, g))
SetPlayMode(u, g, m) ==
    /\ WithinBounds(set_play_mode(u, g, m))
    /\ Apply(set_play_mode(u, g, m))

Next ==
    \/ \E u \in Users, g \in Groups : CreateRoom(u, g)
    \/ \E u \in Users, g \in Groups : JoinRoom(u, g)
    \/ \E u \in Users, g \in Groups : LeaveRoom(u, g)
    \/ \E u \in Users, g \in Groups : CloseRoom(u, g)
    \/ \E u \in Users, g \in Groups, k \in Keywords : SearchSong(u, g, k)
    \/ \E t \in BagToSet(tasks), nq \in QQAnswers, nn \in NeteaseAnswers :
           SearchSongResume(t, nq, nn)
    \/ \E u \in Users, g \in Groups, a \in Args : SelectSong(u, g, a)
    \/ \E t \in BagToSet(tasks), resp \in Responses : GetSongUrlResume(t, resp)
    \/ \E u \in Users, g \in Groups : Play(u, g)
    \/ \E u \in Users, g \in Groups : Pause(u, g)
    \/ \E u \in Users, g \in Groups, rnd \in 0 .. (MaxPlaylist - 1) : NextSong(u, g, rnd)
    \/ \E u \in Users, g \in Groups : PrevSong(u, g)
    \/ \E u \in Users, g \in Groups, a \in Args : SkipTo(u, g, a)
    \/ \E u \in Users, g \in Groups, a \in Args : RemoveSong(u, g, a)
    \/ \E u \in Users, g \in Groups : ClearPlaylist(u, g)
    \/ \E u \in Users, g \in Groups, m \in ModeArgs : SetPlayMode(u, g, m)

Spec == Init /\ [][Next]_vars

\* ------------------------------------------------------------------ playback specification
\* The playback and playlist commands on a room that holds ScenarioSongs
\* songs: the state after user "1" has created the room of group "8" and has
\* ScenarioSongs times searched and selected the first QQ result, each
\* selection finding a stream link.  Nothing has been played yet.
InitPlaylist ==
    /\ rooms = Put(EmptyDict, get_group_key("8"), 1)
    /\ user_room_map = Put(EmptyDict, user_key("1", "8"), get_group_key("8"))
    /\ search_results = EmptyDict
    /\ room_heap = Put(EmptyDict, 1,
                       [Room_add_member(NewRoom(get_group_key("8"), "1", "8"),
                                        "1", user_name("1"))
                            EXCEPT !.playlist = [i \in 1 .. ScenarioSongs |-> i]])
    /\ song_heap = [i \in 1 .. ScenarioSongs |->
                       [id |-> QQCatalogue[1],
                        url |-> get_qq_song_url(QQCatalogue[1], "link"),
                        source |-> "qq"]]
    /\ tasks = EmptyBag
    /\ handled = 0

\* The numbers typed after /切歌 and /移除 on such a playlist.
PlaylistArgs == {NoNumber} \cup (0 .. (ScenarioSongs + 1))

\* A step of a handler that creates no object: only the length of the run is
\* bounded.
Step(res) ==
    /\ Changes(res) => handled < MaxSteps
    /\ Apply(res)

PlaylistNext ==
    \/ \E u \in Users, g \in Groups : Step(play(u, g))
    \/ \E u \in Users, g \in Groups : Step(pause(u, g))
    \/ \E u \in Users, g \in Groups, rnd \in 0 .. (ScenarioSongs - 1) :
           /\ get_user_room(u, g) # None =>
                  rnd < Max(1, Len(room_heap[get_user_room(u, g)].playlist))
           /\ Step(next_song(u, g, rnd))
    \/ \E u \in Users, g \in Groups : Step(prev_song(u, g))
    \/ \E u \in Users, g \in Groups, a \in PlaylistArgs : Step(skip_to(u, g, a))
    \/ \E u \in Users, g \in Groups, a \in PlaylistArgs : Step(remove_song(u, g, a))
    \/ \E u \in Users, g \in Groups : Step(clear_playlist(u, g))
    \/ \E u \in Users, g \in Groups, m \in ModeArgs : Step(set_play_mode(u, g, m))

SpecPlaylist == InitPlaylist /\ [][PlaylistNext]_vars

\* ------------------------------------------------------------------ properties
\* The room object a group scope has, and callers with respect to it.
HasRoom(g) == get_group_key(g) \in DOMAIN rooms
RoomOf(g) == room_heap[rooms[get_group_key(g)]]
IsMember(u, g) == HasRoom(g) /\ u \in DOMAIN RoomOf(g).members
\* The suspended frames of select_song.
SelectFrames == {t \in BagToSet(tasks) : t.kind = "select"}

\* C1: a scope's key holds the one room made for that scope, and create_room
\* for a scope that has a room answers AlreadyExists and changes nothing (the
\* room object, the rooms dict and the reverse index stay as they are),
\* whoever calls it.
C1_OneRoomPerScope ==
    /\ \A k \in DOMAIN rooms :
           /\ room_heap[rooms[k]].room_id = k
           /\ \A k2 \in DOMAIN rooms : rooms[k2] = rooms[k] => k2 = k
    /\ \A u \in Users, g \in Groups :
           HasRoom(g) =>
               /\ create_room(u, g).reply = "AlreadyExists"
               /\ ~Changes(create_room(u, g))

\* C1 witness: a room with a song in its playlist and a cursor on it, where a
\* user who is not its owner is refused a second room.
C1_Witness ==
    \E u \in Users, g \in Groups :
        /\ HasRoom(g)
        /\ u # RoomOf(g).owner_id
        /\ RoomOf(g).playlist # <<>>
        /\ RoomOf(g).current_index = 0
        /\ create_room(u, g).reply = "AlreadyExists"

\* C2 (as claimed): in every room the cursor is -1 or an index of the playlist.
C2_CursorInRange ==
    \A g \in Groups :
        HasRoom(g) =>
            \/ RoomOf(g).current_index = -1
            \/ /\ 0 <= RoomOf(g).current_index
               /\ RoomOf(g).current_index < Len(RoomOf(g).playlist)

\* C3 (as claimed): a caller who is not a member of the room of the scope gets
\* the not-in-a-room answer from every room-mutating command, and the command
\* changes nothing.
C3_NonMemberRejected ==
    \A u \in Users, g \in Groups :
        (HasRoom(g) /\ ~IsMember(u, g)) =>
            /\ \A a \in Args :
                   /\ select_song(u, g, a) = Answer("NotInRoom")
                   /\ skip_to(u, g, a) = Answer("NotInRoom")
                   /\ remove_song(u, g, a) = Answer("NotInRoom")
            /\ play(u, g) = Answer("NotInRoom")
            /\ pause(u, g) = Answer("NotInRoom")
            /\ \A rnd \in 0 .. (MaxPlaylist - 1) : next_song(u, g, rnd) = Answer("NotInRoom")
            /\ prev_song(u, g) = Answer("NotInRoom")
            /\ \A m \in ModeArgs : set_play_mode(u, g, m) = Answer("NotInRoom")

\* C4 (as claimed): of two selections of one caller running against the same
\* stash only one appends a song: a select_song that resumes after the
\* caller's stash has been consumed by the other appends nothing.
C4_OneSelectPerStash ==
    \A t \in SelectFrames, resp \in Responses :
        user_key(t.user_id, t.group_id) \notin DOMAIN search_results =>
            get_song_url_resume(t, resp).room_heap = room_heap

\* The scenario of C5: O owns the room of scope g, M has joined, O's search
\* has stashed two songs, M has never searched and no song has been added.
C5_Setup(O, M, g) ==
    /\ O # M
    /\ HasRoom(g)
    /\ RoomOf(g).owner_id = O
    /\ DOMAIN RoomOf(g).members = {O, M}
    /\ RoomOf(g).playlist = <<>>
    /\ DOMAIN search_results = {user_key(O, g)}
    /\ Len(search_results[user_key(O, g)]) = 2
\* ... at the point where M selects: no handler is suspended.
C5_Scenario(O, M, g) == C5_Setup(O, M, g) /\ tasks = EmptyBag

\* C5 (as claimed): in the scenario M's select(1) goes through, to append
\* song #1 of the search.
C5_MemberSelectsOwnersSearch ==
    \A O \in Users, M \in Users, g \in Groups :
        C5_Scenario(O, M, g) =>
            /\ select_song(M, g, 1).reply # "NoPendingSearch"
            /\ \E t \in BagToSet(select_song(M, g, 1).tasks) :
                   t.kind = "select" /\ t.song = search_results[user_key(O, g)][1]

\* C5 (amended): in the scenario M's select(1) answers NoPendingSearch and
\* changes nothing, since the stash is O's; O's select(1) then goes through:
\* it is suspended holding song #1, and when it resumes song #1 is appended to
\* the playlist, O's stash is deleted and the selection is reported.
C5_OnlySearcherSelects ==
    \A O \in Users, M \in Users, g \in Groups :
        /\ C5_Scenario(O, M, g) =>
               /\ select_song(M, g, 1) = Answer("NoPendingSearch")
               /\ select_song(O, g, 1).tasks =
                      SetToBag({Frame("select", O, g, rooms[get_group_key(g)],
                                      search_results[user_key(O, g)][1])})
               /\ select_song(O, g, 1).search_results = search_results
               /\ select_song(O, g, 1).room_heap = room_heap
        /\ \A t \in SelectFrames, resp \in Responses :
               (/\ C5_Setup(O, M, g)
                /\ tasks = SetToBag({t})
                /\ t = Frame("select", O, g, rooms[get_group_key(g)],
                             search_results[user_key(O, g)][1]))
               => LET res == get_song_url_resume(t, resp)
                  IN /\ res.reply = "SongAdded"
                     /\ res.room_heap[t.room].playlist = <<t.song>>
                     /\ res.search_results = EmptyDict
                     /\ res.tasks = EmptyBag

\* C5 witness: the scenario with O's select(1) suspended in the URL lookup:
\* M's select(1) is answered NoPendingSearch, and O's, when it resumes,
\* reports the song added.
C5_Witness ==
    \E O \in Users, M \in Users, g \in Groups :
        /\ C5_Setup(O, M, g)
        /\ tasks = SetToBag({Frame("select", O, g, rooms[get_group_key(g)],
                                   search_results[user_key(O, g)][1])})
        /\ select_song(M, g, 1).reply = "NoPendingSearch"
        /\ \A t \in SelectFrames : get_song_url_resume(t, "link").reply = "SongAdded"

\* C6: close_room answers NoActiveRoom when the scope has no room and NotOwner
\* when the caller is not the room's owner, changing nothing in either case;
\* for the owner it removes the room from the scope and leaves no member of
\* it with a reverse-index entry.
C6_CloseByOwnerOnly ==
    \A u \in Users, g \in Groups :
        LET res == close_room(u, g) IN
        /\ ~HasRoom(g) => (res.reply = "NoActiveRoom" /\ ~Changes(res))
        /\ (HasRoom(g) /\ u # RoomOf(g).owner_id) =>
               (res.reply = "NotOwner" /\ ~Changes(res))
        /\ (HasRoom(g) /\ u = RoomOf(g).owner_id) =>
               /\ res.reply = "RoomClosed"
               /\ get_group_key(g) \notin DOMAIN res.rooms
               /\ \A m \in DOMAIN RoomOf(g).members :
                      user_key(m, g) \notin DOMAIN res.user_room_map

\* C6 witness: a room with two members, which its owner closes, evicting
\* both, and which the other member is refused to close.
C6_Witness ==
    \E u \in Users, g \in Groups :
        /\ HasRoom(g)
        /\ u # RoomOf(g).owner_id
        /\ DOMAIN RoomOf(g).members = {u, RoomOf(g).owner_id}
        /\ DOMAIN user_room_map = {user_key(u, g), user_key(RoomOf(g).owner_id, g)}
        /\ close_room(u, g).reply = "NotOwner"
        /\ close_room(RoomOf(g).owner_id, g).user_room_map = EmptyDict
        /\ close_room(RoomOf(g).owner_id, g).rooms = EmptyDict

\* C7: leave_room by the owner answers OwnerCannotLeave and changes nothing;
\* by another member it succeeds: the user is gone from the room's members
\* and from the reverse index, the other members and their entries stay, and
\* nothing else of the room changes.
C7_LeaveRoom ==
    \A u \in Users, g \in Groups :
        LET res == leave_room(u, g)
            r == rooms[get_group_key(g)]
        IN /\ (HasRoom(g) /\ u = RoomOf(g).owner_id) =>
                  (res.reply = "OwnerCannotLeave" /\ ~Changes(res))
           /\ (IsMember(u, g) /\ u # RoomOf(g).owner_id) =>
                  /\ res.reply = "Left"
                  /\ res.rooms = rooms
                  /\ res.room_heap[r].members = Del(RoomOf(g).members, u)
                  /\ [res.room_heap[r] EXCEPT !.members = RoomOf(g).members] = RoomOf(g)
                  /\ res.user_room_map = Del(user_room_map, user_key(u, g))
                  /\ user_key(u, g) \in DOMAIN user_room_map

\* C7 witness: a room whose owner is refused to leave and whose other member
\* leaves, after which the owner alone is listed.
C7_Witness ==
    \E u \in Users, g \in Groups :
        /\ IsMember(u, g)
        /\ u # RoomOf(g).owner_id
        /\ leave_room(RoomOf(g).owner_id, g).reply = "OwnerCannotLeave"
        /\ DOMAIN leave_room(u, g).room_heap[rooms[get_group_key(g)]].members
               = {RoomOf(g).owner_id}
        /\ DOMAIN leave_room(u, g).user_room_map = {user_key(RoomOf(g).owner_id, g)}

\* C8 (as claimed): leave_room by a caller who is not a member of the room of
\* the scope answers that the caller is in no room (NotAMember).
C8_LeaveByNonMember ==
    \A u \in Users, g \in Groups :
        (HasRoom(g) /\ ~IsMember(u, g)) => leave_room(u, g).reply = "NotInAnyRoom"

\* C9, in every state: a select_song that reports success leaves its caller
\* without a stash; while a caller has no stash, select_song answers
\* NoPendingSearch and changes nothing; a select_song refused for a missing
\* or out-of-range number changes nothing, so the stash stays.
C9_Selections ==
    /\ \A t \in SelectFrames, resp \in Responses :
           get_song_url_resume(t, resp).reply = "SongAdded" =>
               user_key(t.user_id, t.group_id)
                   \notin DOMAIN get_song_url_resume(t, resp).search_results
    /\ \A u \in Users, g \in Groups, a \in Args :
           LET res == select_song(u, g, a)
               key == user_key(u, g)
           IN /\ (HasRoom(g) /\ key \notin DOMAIN search_results) =>
                     (res.reply = "NoPendingSearch" /\ ~Changes(res))
              /\ (HasRoom(g) /\ key \in DOMAIN search_results
                    /\ (a = NoNumber \/ a - 1 < 0 \/ a - 1 >= Len(search_results[key]))) =>
                     (/\ res.reply = IF a = NoNumber THEN "BadNumber" ELSE "IndexOutOfRange"
                      /\ ~Changes(res))

\* C9, in every step: a caller without a stash gets one only by the
\* completion of a search of that caller.
C9_StashOnlyFromSearch ==
    \A u \in Users, g \in Groups :
        (user_key(u, g) \notin DOMAIN search_results
            /\ user_key(u, g) \in DOMAIN search_results') =>
            \E t \in BagToSet(tasks) :
                /\ t = Frame("search", u, g, None, None)
                /\ tasks' = tasks (-) SetToBag({t})

\* C9: after a caller's select_song has succeeded and consumed the stash, a
\* further select_song of that caller with no search of the caller completed
\* in between answers NoPendingSearch and leaves the playlist as it is; a
\* select_song refused for its number leaves stash and playlist as they are.
C9_StashConsumedOnce == []C9_Selections /\ [][C9_StashOnlyFromSearch]_vars

\* C9 witness: a caller's selection has succeeded (the song is in the
\* playlist, the stash is gone, nothing is suspended) and the caller's next
\* select_song is answered NoPendingSearch.
C9_Witness ==
    \E u \in Users, g \in Groups :
        /\ HasRoom(g)
        /\ RoomOf(g).playlist # <<>>
        /\ user_key(u, g) \notin DOMAIN search_results
        /\ tasks = EmptyBag
        /\ select_song(u, g, 1).reply = "NoPendingSearch"

\* C9 witness of the refusals: a caller with a stash of one song asks for
\* song 2.
C9_WitnessRefused ==
    \E u \in Users, g \in Groups :
        /\ HasRoom(g)
        /\ user_key(u, g) \in DOMAIN search_results
        /\ Len(search_results[user_key(u, g)]) = 1
        /\ select_song(u, g, 2).reply = "IndexOutOfRange"

\* C10 (as claimed): a Song's url, once not empty, is never written again.
C10_UrlWrittenOnce ==
    [][\A s \in (DOMAIN song_heap) \cap (DOMAIN song_heap') :
           song_heap[s].url # "" => song_heap'[s].url = song_heap[s].url]_vars

\* The suspended frames waiting in get_song_url for the Song s, counted with
\* their multiplicity: the URL requests under way for s.
ResolvesInFlight(s) ==
    Copies({t \in BagToSet(tasks) : t.kind # "search" /\ t.song = s}, tasks)

\* C11 (as claimed): a Song is resolved over the network at most once: no two
\* URL requests are under way for the same Song, and none is under way for a
\* Song that has its URL.
C11_OneResolvePerSong ==
    \A s \in DOMAIN song_heap :
        /\ ResolvesInFlight(s) <= 1
        /\ ResolvesInFlight(s) = 1 => song_heap[s].url = ""

\* The suspended frames of search_song.
SearchFrames == {t \in BagToSet(tasks) : t.kind = "search"}
\* The Songs a finished search has left in a caller's stash (no stash: none).
Stashed(res, key) ==
    IF key \in DOMAIN res.search_results
    THEN [i \in 1 .. Len(res.search_results[key]) |->
             res.song_heap[res.search_results[key][i]]]
    ELSE <<>>

\* C12: whatever the two providers answer to a suspended search_song: when
\* QQ's answer holds items, the search yields exactly QQ's songs, Netease is
\* not asked and its answer makes no difference; when QQ's answer is empty
\* or its request failed, the search yields exactly Netease's songs; when
\* both yield nothing the search yields the empty list, which the handler
\* reports as NotFound, leaving the stashes alone; the songs of a result all
\* come from one provider.
C12_SearchFallback ==
    \A t \in SearchFrames, nq \in QQAnswers, nn \in NeteaseAnswers :
        LET res == search_song_resume(t, nq, nn)
            key == user_key(t.user_id, t.group_id)
            songs == search(search_qq(nq), search_netease(nn))
        IN /\ nq > 0 =>
                  /\ songs = [i \in 1 .. nq |->
                                 [id |-> QQCatalogue[i], url |-> "", source |-> "qq"]]
                  /\ search_requests(search_qq(nq)) = <<"qq">>
                  /\ \A other \in NeteaseAnswers : search_song_resume(t, nq, other) = res
           /\ (nq <= 0 /\ nn > 0) =>
                  /\ songs = [i \in 1 .. nn |->
                                 [id |-> NeteaseCatalogue[i], url |-> "", source |-> "netease"]]
                  /\ search_requests(search_qq(nq)) = <<"qq", "netease">>
           /\ (nq <= 0 /\ nn <= 0) =>
                  /\ songs = <<>>
                  /\ res.reply = "NotFound"
                  /\ res.search_results = search_results
           /\ songs # <<>> =>
                  /\ res.reply = "SearchResults"
                  /\ Stashed(res, key) = songs
           /\ \A i, j \in 1 .. Len(songs) : songs[i].source = songs[j].source

\* C12 witness: a search is suspended whose caller holds the stash of an
\* earlier search; with QQ's request failing and two songs from Netease, the
\* caller's stash becomes the two Netease songs.
C12_Witness ==
    \E t \in SearchFrames :
        /\ user_key(t.user_id, t.group_id) \in DOMAIN search_results
        /\ search_song_resume(t, Failed, 2).reply = "SearchResults"
        /\ Len(Stashed(search_song_resume(t, Failed, 2),
                       user_key(t.user_id, t.group_id))) = 2
        /\ \A i \in 1 .. 2 :
               Stashed(search_song_resume(t, Failed, 2),
                       user_key(t.user_id, t.group_id))[i].source = "netease"

\* The suspended frames waiting in get_song_url.
UrlFrames == {t \in BagToSet(tasks) : t.kind # "search"}
\* The web page of a song at its provider.
SongPage(song) ==
    IF song.source = "qq"
    THEN "https://y.qq.com/n/ryqq/songDetail/" \o song.id
    ELSE "https://music.163.com/song?id=" \o song.id

\* C13: for every Song and every outcome of the request, get_song_url gives
\* a URL that is not empty; when the request fails or its answer holds no
\* stream link, the URL is the page of the song at the provider of its
\* source tag; a stream link is never one of the other provider; and the
\* handler that awaited the lookup stores that URL on the Song.
C13_ResolveAlwaysAnswers ==
    /\ \A s \in DOMAIN song_heap, resp \in Responses :
           LET song == song_heap[s]
               url == get_song_url(song, resp)
           IN /\ url # ""
              /\ resp # "link" => url = SongPage(song)
              /\ song.source = "qq" =>
                     url \notin {get_netease_song_url(song.id, r) : r \in Responses}
              /\ song.source = "netease" =>
                     url \notin {get_qq_song_url(song.id, r) : r \in Responses}
    /\ \A t \in UrlFrames, resp \in Responses :
           LET res == get_song_url_resume(t, resp)
           IN t.song \in DOMAIN res.song_heap =>
                  /\ res.song_heap[t.song].url # ""
                  /\ resp # "link" => res.song_heap[t.song].url = SongPage(song_heap[t.song])

\* C13 witness: a handler waits for the URL of a Netease song while a QQ song
\* exists as well; when the request raises, the Netease song gets its
\* Netease page.
C13_Witness ==
    \E t \in UrlFrames :
        /\ song_heap[t.song].source = "netease"
        /\ \E s \in DOMAIN song_heap : song_heap[s].source = "qq"
        /\ t.song \in DOMAIN get_song_url_resume(t, "error").song_heap
        /\ get_song_url_resume(t, "error").song_heap[t.song].url
               = "https://music.163.com/song?id=" \o song_heap[t.song].id

\* What the handler stretches that can run in the current state leave behind,
\* for every caller and input.
Outcomes ==
    UNION {{create_room(u, g), join_room(u, g), leave_room(u, g), close_room(u, g),
            play(u, g), pause(u, g), prev_song(u, g), clear_playlist(u, g)}
           \cup {search_song(u, g, k) : k \in Keywords}
           \cup {select_song(u, g, a) : a \in Args}
           \cup {skip_to(u, g, a) : a \in Args}
           \cup {remove_song(u, g, a) : a \in Args}
           \cup {next_song(u, g, rnd) : rnd \in 0 .. (MaxPlaylist - 1)}
           \cup {set_play_mode(u, g, m) : m \in ModeArgs}
           : u \in Users, g \in Groups}
    \cup {search_song_resume(t, nq, nn) :
              t \in SearchFrames, nq \in QQAnswers, nn \in NeteaseAnswers}
    \cup {get_song_url_resume(t, resp) : t \in UrlFrames, resp \in Responses}

\* The outcomes that are failures: the rejection messages, and the error a
\* handler dies of.
FailureReplies ==
    {"AlreadyExists", "NoRoomToJoin", "AlreadyInRoom", "NotInAnyRoom",
     "OwnerCannotLeave", "NoActiveRoom", "NotOwner", "NeedKeyword", "JoinRoomFirst",
     "NotFound", "NotInRoom", "NoPendingSearch", "BadNumber", "IndexOutOfRange",
     "PlaylistEmpty", "NoCurrentSong", "NothingPlaying", "OnlyOwnerClears", "KeyError"}

\* Whether a stretch has written to the rooms dict, to a room object, to the
\* reverse index or to a stash.
Writes(res) ==
    \/ res.rooms # rooms
    \/ res.user_room_map # user_room_map
    \/ res.search_results # search_results
    \/ \E r \in (DOMAIN room_heap) \cap (DOMAIN res.room_heap) :
           res.room_heap[r] # room_heap[r]

\* C14 (as claimed): a handler that ends in a failure has written to no room,
\* not to the reverse index and to no stash.
C14_FailureWritesNothing ==
    \A res \in Outcomes : res.reply \in FailureReplies => ~Writes(res)

\* C15: play on an empty playlist answers PlaylistEmpty and changes nothing,
\* so the cursor is not initialised; play on a playlist with songs while
\* stopped sets the playing flag, moves the cursor to 0 when it was -1 and
\* keeps it otherwise, and changes nothing else; play while playing answers
\* AlreadyPlaying and changes nothing.
C15_Play ==
    \A u \in Users, g \in Groups :
        HasRoom(g) =>
            LET room == RoomOf(g)
                res == play(u, g)
            IN /\ room.playlist = <<>> =>
                      (res.reply = "PlaylistEmpty" /\ ~Changes(res))
               /\ (room.playlist # <<>> /\ room.is_playing) =>
                      (res.reply = "AlreadyPlaying" /\ ~Changes(res))
               /\ (room.playlist # <<>> /\ ~room.is_playing) =>
                      /\ res.reply = "NowPlaying"
                      /\ res.room_heap[rooms[get_group_key(g)]] =
                             [room EXCEPT !.is_playing = TRUE,
                                          !.current_index = IF @ = -1 THEN 0 ELSE @]
                      /\ res.rooms = rooms
                      /\ res.user_room_map = user_room_map
                      /\ res.search_results = search_results
                      /\ res.song_heap = song_heap
                      /\ res.tasks = tasks

\* C15 witness: a stopped room whose cursor is on its third song; play starts
\* it there.
C15_Witness ==
    \E u \in Users, g \in Groups :
        /\ HasRoom(g)
        /\ Len(RoomOf(g).playlist) = 3
        /\ RoomOf(g).current_index = 2
        /\ ~RoomOf(g).is_playing
        /\ play(u, g).room_heap[rooms[get_group_key(g)]].is_playing
        /\ play(u, g).room_heap[rooms[get_group_key(g)]].current_index = 2

\* n calls of MusicRoom.next_song in a row on a room in sequential mode,
\* where the number drawn plays no part.
RECURSIVE Advance(_, _)
Advance(room, n) ==
    IF n = 0 THEN room ELSE Advance(Room_next_song(room, 0), n - 1)
\* The rooms with songs, by scope.
Filled == {g \in Groups : HasRoom(g) /\ RoomOf(g).playlist # <<>>}

\* C16, the random mode: /下一首 leaves the cursor on an index of the playlist.
C16_RandomInRange ==
    \A g \in Filled :
        RoomOf(g).play_mode = "random" =>
            \A u \in Users, rnd \in 0 .. (Len(RoomOf(g).playlist) - 1) :
                LET res == next_song(u, g, rnd)
                IN /\ res.room_heap[rooms[get_group_key(g)]].current_index >= 0
                   /\ res.room_heap[rooms[get_group_key(g)]].current_index
                          < Len(RoomOf(g).playlist)

\* C16 (as claimed): in sequential mode, from every cursor a room with N >= 1
\* songs can have, N calls of next_song bring the cursor back to where it
\* was; in random mode every next_song leaves the cursor in [0, N).
C16_WrapAround ==
    /\ \A g \in Filled :
           RoomOf(g).play_mode = "sequence" =>
               Advance(RoomOf(g), Len(RoomOf(g).playlist)).current_index
                   = RoomOf(g).current_index
    /\ C16_RandomInRange

\* C16 (amended): in sequential mode /下一首 moves the cursor to
\* (cursor + 1) mod N and changes nothing else of the room; N calls of
\* next_song bring the room back to where it was from every cursor in
\* [0, N), and from the cursor -1 of a room that has not played yet they
\* leave the cursor on N - 1; in random mode every next_song leaves the
\* cursor in [0, N).
C16_WrapAroundFromIndex ==
    /\ \A g \in Filled :
           LET room == RoomOf(g)
               N == Len(room.playlist)
           IN room.play_mode = "sequence" =>
                  /\ \A u \in Users :
                         next_song(u, g, 0).room_heap[rooms[get_group_key(g)]] =
                             [room EXCEPT !.current_index = (@ + 1) % N]
                  /\ (0 <= room.current_index /\ room.current_index < N) =>
                         Advance(room, N) = room
                  /\ room.current_index = -1 =>
                         Advance(room, N) = [room EXCEPT !.current_index = N - 1]
                  /\ room.current_index >= -1 /\ room.current_index < N
    /\ C16_RandomInRange

\* C16 witness: a room in sequential mode with three songs and the cursor on
\* the last: next_song wraps to the first, and three of them end on the last.
C16_Witness ==
    \E g \in Filled :
        /\ RoomOf(g).play_mode = "sequence"
        /\ Len(RoomOf(g).playlist) = 3
        /\ RoomOf(g).current_index = 2
        /\ Room_next_song(RoomOf(g), 0).current_index = 0
        /\ Advance(RoomOf(g), 3).current_index = 2

\* C17, the retreat: /上一首 moves the cursor to (cursor - 1) mod N in either
\* mode and changes nothing else of the room.
C17_Retreat ==
    \A g \in Filled, u \in Users :
        prev_song(u, g).room_heap[rooms[get_group_key(g)]] =
            [RoomOf(g) EXCEPT !.current_index = (@ - 1) % Len(RoomOf(g).playlist)]

\* C17 (as claimed): in sequential mode, from every cursor a room with songs
\* can have, prev_song followed by next_song leaves the cursor where it was;
\* prev_song moves the cursor to (cursor - 1) mod N in either mode.
C17_RetreatAdvance ==
    /\ \A g \in Filled :
           RoomOf(g).play_mode = "sequence" =>
               Room_next_song(Room_prev_song(RoomOf(g)), 0).current_index
                   = RoomOf(g).current_index
    /\ C17_Retreat

\* C17 (amended): in sequential mode prev_song followed by next_song leaves
\* the room as it was from every cursor in [0, N); from the cursor -1 of a
\* room that has not played yet the pair leaves the cursor on N - 1;
\* prev_song moves the cursor to (cursor - 1) mod N in either mode.
C17_RetreatAdvanceFromIndex ==
    /\ \A g \in Filled :
           LET room == RoomOf(g)
               N == Len(room.playlist)
           IN room.play_mode = "sequence" =>
                  /\ (0 <= room.current_index /\ room.current_index < N) =>
                         Room_next_song(Room_prev_song(room), 0) = room
                  /\ room.current_index = -1 =>
                         Room_next_song(Room_prev_song(room), 0) =
                             [room EXCEPT !.current_index = N - 1]
                  /\ room.current_index >= -1 /\ room.current_index < N
    /\ C17_Retreat

\* C17 witness: a room in sequential mode with three songs and the cursor on
\* the first: prev_song wraps to the last, next_song comes back to the first.
C17_Witness ==
    \E g \in Filled :
        /\ RoomOf(g).play_mode = "sequence"
        /\ Len(RoomOf(g).playlist) = 3
        /\ RoomOf(g).current_index = 0
        /\ Room_prev_song(RoomOf(g)).current_index = 2
        /\ Room_next_song(Room_prev_song(RoomOf(g)), 0).current_index = 0

\* C18: /移除 with the number of a song of the playlist removes exactly that
\* song, the others keeping their order; the cursor becomes max(0, len - 1)
\* of the shortened playlist when it is no longer below its length and
\* stays as it was otherwise; the playing flag and everything else stay as
\* they were.  With three songs and the cursor on the third, removing the
\* third leaves the cursor on 1.  /移除 with no number or with a number
\* outside the playlist changes nothing.
C18_RemoveSong ==
    \A u \in Users, g \in Groups, a \in PlaylistArgs :
        HasRoom(g) =>
            LET room == RoomOf(g)
                N == Len(room.playlist)
                res == remove_song(u, g, a)
                after == res.room_heap[rooms[get_group_key(g)]]
            IN /\ (a # NoNumber /\ 1 <= a /\ a <= N) =>
                      /\ res.reply = "Removed"
                      /\ Len(after.playlist) = N - 1
                      /\ \A j \in 1 .. (N - 1) :
                             after.playlist[j] = room.playlist[IF j < a THEN j ELSE j + 1]
                      /\ after.current_index =
                             IF room.current_index >= N - 1
                             THEN Max(0, N - 2)
                             ELSE room.current_index
                      /\ after.is_playing = room.is_playing
                      /\ [after EXCEPT !.playlist = room.playlist,
                                       !.current_index = room.current_index] = room
                      /\ res.rooms = rooms
                      /\ res.user_room_map = user_room_map
                      /\ res.search_results = search_results
                      /\ res.tasks = tasks
               /\ (N = 3 /\ room.current_index = 2 /\ a = 3) =>
                      /\ after.current_index = 1
                      /\ after.playlist = SubSeq(room.playlist, 1, 2)
               /\ (a = NoNumber \/ a < 1 \/ a > N) =>
                      /\ res.reply = IF a = NoNumber THEN "BadNumber" ELSE "IndexOutOfRange"
                      /\ ~Changes(res)

\* C18 witness: three songs playing with the cursor on the third; removing
\* the third leaves two songs, the cursor on 1 and the room playing.
C18_Witness ==
    \E u \in Users, g \in Groups :
        /\ HasRoom(g)
        /\ Len(RoomOf(g).playlist) = 3
        /\ RoomOf(g).current_index = 2
        /\ RoomOf(g).is_playing
        /\ remove_song(u, g, 3).reply = "Removed"
        /\ remove_song(u, g, 3).room_heap[rooms[get_group_key(g)]].current_index = 1
        /\ remove_song(u, g, 3).room_heap[rooms[get_group_key(g)]].is_playing

\* A suspended handler still holds the room its scope had before that room
\* was closed and another was created.
HoldsClosedRoom(g) ==
    \E t \in UrlFrames :
        t.group_id = g /\ t.room # None /\ t.room # rooms[get_group_key(g)]

\* C19: every entry of the reverse index is the entry of a user and a scope,
\* names the room key of that scope, and that scope has a room that lists
\* the user as a member; every member of the room of a scope has such an
\* entry.
C19_IndexConsistent ==
    /\ DOMAIN user_room_map \subseteq {user_key(u, g) : u \in Users, g \in Groups}
    /\ \A u \in Users, g \in Groups :
           user_key(u, g) \in DOMAIN user_room_map =>
               /\ user_room_map[user_key(u, g)] = get_group_key(g)
               /\ HasRoom(g)
               /\ u \in DOMAIN RoomOf(g).members
    /\ \A g \in Groups :
           HasRoom(g) =>
               \A m \in DOMAIN RoomOf(g).members :
                   /\ user_key(m, g) \in DOMAIN user_room_map
                   /\ user_room_map[user_key(m, g)] = RoomOf(g).room_id

\* C19 witness: a scope whose room was closed and created again (a suspended
\* handler still holds the closed one), the new room having two members,
\* both with an entry.
C19_Witness ==
    \E g \in Groups :
        /\ HasRoom(g)
        /\ HoldsClosedRoom(g)
        /\ DOMAIN RoomOf(g).members = Users
        /\ DOMAIN user_room_map = {user_key(u, g) : u \in Users}

\* C20, in every state: the owner of the room of a scope is one of its
\* members.
C20_OwnerIsMember ==
    \A g \in Groups :
        HasRoom(g) =>
            /\ RoomOf(g).owner_id \in DOMAIN RoomOf(g).members
            /\ RoomOf(g).members[RoomOf(g).owner_id] = RoomOf(g).owner_name

\* C20, in every step: while a scope keeps its room, the room keeps its
\* owner's id and name.
C20_OwnerFixed ==
    \A k \in (DOMAIN rooms) \cap (DOMAIN rooms') :
        rooms'[k] = rooms[k] =>
            /\ room_heap'[rooms'[k]].owner_id = room_heap[rooms[k]].owner_id
            /\ room_heap'[rooms'[k]].owner_name = room_heap[rooms[k]].owner_name

\* C20: the owner of every room is always among its members, and a room's
\* owner does not change from its creation to its close.
C20_OwnerStays == []C20_OwnerIsMember /\ [][C20_OwnerFixed]_vars

\* C20 witness: a room with a second member, created by another user than
\* the closed room a suspended handler still holds; its owner is a member
\* and is refused to leave.
C20_Witness ==
    \E g \in Groups :
        /\ HasRoom(g)
        /\ \E t \in UrlFrames :
               /\ t.room # None /\ t.room # rooms[get_group_key(g)]
               /\ room_heap[t.room].owner_id # RoomOf(g).owner_id
        /\ Cardinality(DOMAIN RoomOf(g).members) = 2
        /\ RoomOf(g).owner_id \in DOMAIN RoomOf(g).members
        /\ leave_room(RoomOf(g).owner_id, g).reply = "OwnerCannotLeave"

\* The step taken is the stretch of handler code that leaves res.
StepIs(res) ==
    /\ rooms' = res.rooms
    /\ user_room_map' = res.user_room_map
    /\ search_results' = res.search_results
    /\ room_heap' = res.room_heap
    /\ song_heap' = res.song_heap
    /\ tasks' = res.tasks
\* Whether a stretch leaves the playing flag of every room object as it is.
KeepsFlag(res) ==
    \A r \in (DOMAIN room_heap) \cap (DOMAIN res.room_heap) :
        res.room_heap[r].is_playing = room_heap[r].is_playing

\* C21, in every state: play while playing and pause while stopped change
\* nothing; clear_playlist by another than the owner changes nothing, by the
\* owner it leaves the room stopped with an empty playlist and cursor -1;
\* select, remove, next, previous, skip, mode, join and leave (and the
\* searches and the resumptions of suspended handlers) leave every playing
\* flag as it is.
C21_FlagKept ==
    /\ \A u \in Users, g \in Groups :
           HasRoom(g) =>
               /\ RoomOf(g).is_playing => ~Changes(play(u, g))
               /\ ~RoomOf(g).is_playing => ~Changes(pause(u, g))
               /\ u # RoomOf(g).owner_id => ~Changes(clear_playlist(u, g))
               /\ u = RoomOf(g).owner_id =>
                      LET after == clear_playlist(u, g).room_heap[rooms[get_group_key(g)]]
                      IN /\ ~after.is_playing
                         /\ after.playlist = <<>>
                         /\ after.current_index = -1
    /\ \A u \in Users, g \in Groups :
           /\ KeepsFlag(join_room(u, g))
           /\ KeepsFlag(leave_room(u, g))
           /\ KeepsFlag(prev_song(u, g))
           /\ \A a \in Args :
                  /\ KeepsFlag(select_song(u, g, a))
                  /\ KeepsFlag(remove_song(u, g, a))
                  /\ KeepsFlag(skip_to(u, g, a))
           /\ \A rnd \in 0 .. (MaxPlaylist - 1) : KeepsFlag(next_song(u, g, rnd))
           /\ \A m \in ModeArgs : KeepsFlag(set_play_mode(u, g, m))
           /\ \A k \in Keywords : KeepsFlag(search_song(u, g, k))
    /\ \A t \in UrlFrames, resp \in Responses : KeepsFlag(get_song_url_resume(t, resp))
    /\ \A t \in SearchFrames, nq \in QQAnswers, nn \in NeteaseAnswers :
           KeepsFlag(search_song_resume(t, nq, nn))

\* C21, in every step: the playing flag of a room object goes from stopped
\* to playing only by a play, and from playing to stopped only by a pause or
\* by a clear_playlist of the room's owner.
C21_FlagChange ==
    \A r \in (DOMAIN room_heap) \cap (DOMAIN room_heap') :
        /\ (~room_heap[r].is_playing /\ room_heap'[r].is_playing) =>
               \E u \in Users, g \in Groups : StepIs(play(u, g))
        /\ (room_heap[r].is_playing /\ ~room_heap'[r].is_playing) =>
               \E u \in Users, g \in Groups :
                   \/ StepIs(pause(u, g))
                   \/ /\ StepIs(clear_playlist(u, g))
                      /\ u = room_heap[r].owner_id
                      /\ room_heap'[r].playlist = <<>>
                      /\ room_heap'[r].current_index = -1

\* C21: the playing flag changes only by play, pause and the owner's clear;
\* every other command, and play or pause that have nothing to do, leave it.
C21_PlayingFlag == []C21_FlagKept /\ [][C21_FlagChange]_vars

\* C21 witness: a playing room with a song and two members, which the member
\* who is not the owner is refused to clear and the owner's clear stops.
C21_Witness ==
    \E u \in Users, g \in Groups :
        /\ IsMember(u, g)
        /\ u # RoomOf(g).owner_id
        /\ RoomOf(g).is_playing
        /\ RoomOf(g).playlist # <<>>
        /\ clear_playlist(u, g).reply = "OnlyOwnerClears"
        /\ ~clear_playlist(RoomOf(g).owner_id, g)
               .room_heap[rooms[get_group_key(g)]].is_playing

\* C22 (as claimed): when a suspended select_song resumes while its caller's
\* stash is that of a later search (the stash does not hold the song the
\* select read), the stash is still there afterwards.
C22_FreshStashKept ==
    \A t \in SelectFrames, resp \in Responses :
        LET key == user_key(t.user_id, t.group_id)
            res == get_song_url_resume(t, resp)
        IN (key \in DOMAIN search_results /\ t.song \notin SeqRange(search_results[key])) =>
               /\ key \in DOMAIN res.search_results
               /\ res.search_results[key] = search_results[key]

\* C23 (as claimed): a select_song that reports success has appended its
\* song to the room its scope has at that moment.
C23_AddedToActiveRoom ==
    \A t \in SelectFrames, resp \in Responses :
        LET res == get_song_url_resume(t, resp)
        IN res.reply = "SongAdded" =>
               /\ HasRoom(t.group_id)
               /\ rooms[get_group_key(t.group_id)] = t.room
               /\ t.song \in SeqRange(res.room_heap[t.room].playlist)

\* C24 (as claimed): /移除 of a song that the cursor is not on leaves the
\* current song the same Song.
C24_CurrentSongKept ==
    \A u \in Users, g \in Groups, a \in PlaylistArgs :
        (/\ HasRoom(g)
         /\ a # NoNumber
         /\ 1 <= a /\ a <= Len(RoomOf(g).playlist)
         /\ a - 1 # RoomOf(g).current_index) =>
            get_current_song(remove_song(u, g, a).room_heap[rooms[get_group_key(g)]])
                = get_current_song(RoomOf(g))

\* C25: every song of every playlist, the playlists of closed rooms that
\* suspended handlers still hold included, has a URL; so play, next_song,
\* prev_song and skip_to suspend no handler in a URL lookup, and the only
\* handlers waiting for a URL are selections.
C25_PlaylistSongsResolved ==
    /\ \A r \in DOMAIN room_heap :
           \A i \in 1 .. Len(room_heap[r].playlist) :
               song_heap[room_heap[r].playlist[i]].url # ""
    /\ \A u \in Users, g \in Groups :
           /\ play(u, g).tasks = tasks
           /\ prev_song(u, g).tasks = tasks
           /\ \A rnd \in 0 .. (MaxPlaylist - 1) : next_song(u, g, rnd).tasks = tasks
           /\ \A a \in Args : skip_to(u, g, a).tasks = tasks
    /\ \A t \in UrlFrames : t.kind = "select"

\* C25 witness: a room with two songs, the first resolved to a stream link
\* and the second to its provider page; skip_to the second answers at once.
C25_Witness ==
    \E u \in Users, g \in Groups :
        /\ HasRoom(g)
        /\ Len(RoomOf(g).playlist) = 2
        /\ song_heap[RoomOf(g).playlist[1]].url
               = get_song_url(song_heap[RoomOf(g).playlist[1]], "link")
        /\ song_heap[RoomOf(g).playlist[2]].url
               = get_song_url(song_heap[RoomOf(g).playlist[2]], "error")
        /\ skip_to(u, g, 2).reply = "SkippedTo"
        /\ skip_to(u, g, 2).tasks = tasks
====
